---- MODULE Spec2Model ----
(***************************************************************************)
(* Model of treegen (treegen/treegen.py): the WROM successor algorithm on  *)
(* level sequences, the lazy generators built on it, the adjacency-matrix  *)
(* adapter and the count table.                                            *)
(*                                                                         *)
(* Python lists are sequences; a Python index i is position i + 1.        *)
(* A negative Python index wraps around once (PyAt), and an index outside  *)
(* -len..len-1 is an IndexError.  Every function result is a record        *)
(* [tag, val]: tag "ok" carries a list, "none" is Python's None, and the   *)
(* other tags are the exceptions the interpreter raises.                   *)
(***************************************************************************)
EXTENDS Integers, Sequences, FiniteSets

VARIABLES mode, n, pc, heap, layout, original, matrix, countArg, countResult

vars == <<mode, n, pc, heap, layout, original, matrix, countArg, countResult>>

(* ------------------------------ bounds --------------------------------- *)
MaxNegN == 1
MaxN == 9
MaxTamperN == 5
MaxWrite == 2
MaxCountArg == 60

(* --------------------------- result values ----------------------------- *)
Ok(v) == [tag |-> "ok", val |-> v]
None == [tag |-> "none", val |-> <<>>]
Raise(e) == [tag |-> e, val |-> <<>>]

(* list[i] for a Python index i that is known to be in range *)
PyAt(s, i) == IF i >= 0 THEN s[i + 1] ELSE s[Len(s) + i + 1]

(* max(list) of a non-empty list *)
RECURSIVE PyMax(_)
PyMax(s) ==
  IF Len(s) = 1 THEN s[1]
  ELSE LET m == PyMax(Tail(s)) IN IF s[1] > m THEN s[1] ELSE m

(* list comparison a > b: lexicographic, a proper prefix is smaller *)
RECURSIVE PyGreater(_, _)
PyGreater(a, b) ==
  IF Len(a) = 0 THEN FALSE
  ELSE IF Len(b) = 0 THEN TRUE
  ELSE IF a[1] # b[1] THEN a[1] > b[1]
  ELSE PyGreater(Tail(a), Tail(b))

(* range(lo, hi) as a list *)
PyRange(lo, hi) == [k \in 1..(IF hi > lo THEN hi - lo ELSE 0) |-> lo + k - 1]

(* ------------------------------ split_tree ----------------------------- *)
ones(lay) == {i \in 0..(Len(lay) - 1) : lay[i + 1] = 1}

split_index(lay) ==
  IF Cardinality(ones(lay)) > 1
  THEN CHOOSE i \in ones(lay) : Cardinality({j \in ones(lay) : j < i}) = 1
  ELSE Len(lay)

left_subtree(lay) == [k \in 1..(split_index(lay) - 1) |-> lay[k + 1] - 1]

remaining_subtree(lay) == <<0>> \o SubSeq(lay, split_index(lay) + 1, Len(lay))

(* ---------------------- generate_centered_tree_layout ------------------ *)
generate_centered_tree_layout(nv) ==
  PyRange(0, (nv \div 2) + 1) \o PyRange(1, (nv + 1) \div 2)

(* ---------------------------- next_rooted_tree ------------------------- *)
(* while predecessor[left_order] == 1: left_order -= 1                     *)
(* -1 - Len(s) stands for the IndexError of running off the list           *)
RECURSIVE pivot_scan(_, _)
pivot_scan(s, i) ==
  IF i < -Len(s) THEN i
  ELSE IF PyAt(s, i) = 1 THEN pivot_scan(s, i - 1)
  ELSE i

(* while predecessor[q] != predecessor[left_order] - 1: q -= 1 *)
RECURSIVE q_scan(_, _, _)
q_scan(s, q, target) ==
  IF q < -Len(s) THEN q
  ELSE IF PyAt(s, q) # target THEN q_scan(s, q - 1, target)
  ELSE q

(* for i in range(left_order, len(result)): result[i] = result[i-left_order+q] *)
RECURSIVE fill(_, _, _, _)
fill(result, i, left_order, q) ==
  IF i >= Len(result) THEN result
  ELSE fill([result EXCEPT ![i + 1] = PyAt(result, i - left_order + q)],
            i + 1, left_order, q)

(* next_rooted_tree copying the pattern from one position too far right:   *)
(* result[i] = result[i - left_order + q + 1]                              *)
next_rooted_tree_from_shifted(predecessor, left_order) ==
  IF left_order = 0 THEN None
  ELSE LET q == q_scan(predecessor, left_order - 1,
                       PyAt(predecessor, left_order) - 1)
       IN IF q < -Len(predecessor) THEN Raise("IndexError")
          ELSE Ok(fill(predecessor, left_order, left_order, q + 1))

(* next_rooted_tree without the stop condition of lines 53-54 *)
next_rooted_tree_from_no_stop(predecessor, left_order) ==
  LET q == q_scan(predecessor, left_order - 1,
                  PyAt(predecessor, left_order) - 1)
  IN IF q < -Len(predecessor) THEN Raise("IndexError")
     ELSE Ok(fill(predecessor, left_order, left_order, q))

(* the body of next_rooted_tree once left_order is known *)
next_rooted_tree_from(predecessor, left_order) ==
  IF left_order = 0 THEN None
  ELSE LET q == q_scan(predecessor, left_order - 1,
                       PyAt(predecessor, left_order) - 1)
       IN IF q < -Len(predecessor) THEN Raise("IndexError")
          ELSE Ok(fill(predecessor, left_order, left_order, q))

(* next_rooted_tree(predecessor) with left_order = None *)
next_rooted_tree(predecessor) ==
  LET left_order == pivot_scan(predecessor, Len(predecessor) - 1)
  IN IF left_order < -Len(predecessor) THEN Raise("IndexError")
     ELSE next_rooted_tree_from(predecessor, left_order)

(* ----------------------------- candidate_valid ------------------------- *)
(* candidate_valid without the comparison of the orders at equal height *)
candidate_valid_no_order(l_tree, r_tree) ==
  IF Len(l_tree) = 0 \/ Len(r_tree) = 0 THEN [tag |-> "ValueError", valid |-> FALSE, order |-> 0]
  ELSE LET l_height == PyMax(l_tree)
           r_height == PyMax(r_tree)
           l_order == Len(l_tree)
           r_order == Len(r_tree)
       IN IF l_height > r_height
          THEN [tag |-> "ok", valid |-> FALSE, order |-> l_order]
          ELSE IF l_height = r_height /\ l_order = r_order /\ PyGreater(l_tree, r_tree)
          THEN [tag |-> "ok", valid |-> FALSE, order |-> l_order]
          ELSE [tag |-> "ok", valid |-> TRUE, order |-> l_order]

candidate_valid(l_tree, r_tree) ==
  IF Len(l_tree) = 0 \/ Len(r_tree) = 0 THEN [tag |-> "ValueError", valid |-> FALSE, order |-> 0]
  ELSE LET l_height == PyMax(l_tree)
           r_height == PyMax(r_tree)
           l_order == Len(l_tree)
           r_order == Len(r_tree)
       IN IF l_height > r_height
          THEN [tag |-> "ok", valid |-> FALSE, order |-> l_order]
          ELSE IF l_height = r_height /\ l_order > r_order
          THEN [tag |-> "ok", valid |-> FALSE, order |-> l_order]
          ELSE IF l_height = r_height /\ l_order = r_order /\ PyGreater(l_tree, r_tree)
          THEN [tag |-> "ok", valid |-> FALSE, order |-> l_order]
          ELSE [tag |-> "ok", valid |-> TRUE, order |-> l_order]

(* -------------------------- generate_new_candidate --------------------- *)
(* the slice written with the wrong sign: new_candidate[len(suffix):] = suffix *)
slice_assign_from_front(lst, suffix) ==
  SubSeq(lst, 1, IF Len(lst) > Len(suffix) THEN Len(suffix) ELSE Len(lst))
    \o suffix

(* new_candidate[-len(suffix):] = suffix                                   *)
slice_assign(lst, suffix) ==
  SubSeq(lst, 1, IF Len(lst) > Len(suffix) THEN Len(lst) - Len(suffix) ELSE 0)
    \o suffix

(* generate_new_candidate without the suffix overwrite of lines 99-103 *)
generate_new_candidate_no_suffix(candidate, left_subtree_order) ==
  next_rooted_tree_from(candidate, left_subtree_order)

generate_new_candidate(candidate, left_subtree_order) ==
  LET new_candidate == next_rooted_tree_from(candidate, left_subtree_order)
  IN IF new_candidate.tag \notin {"ok", "none"} THEN new_candidate
     ELSE IF PyAt(candidate, left_subtree_order) > 2
     THEN IF new_candidate.tag = "none" THEN Raise("TypeError")
          ELSE LET new_left_subtree == left_subtree(new_candidate.val)
               IN IF Len(new_left_subtree) = 0 THEN Raise("ValueError")
                  ELSE LET new_left_height == PyMax(new_left_subtree)
                           suffix == PyRange(1, new_left_height + 2)
                       IN Ok(slice_assign(new_candidate.val, suffix))
     ELSE new_candidate

(* -------------------------------- next_tree ---------------------------- *)
next_tree(candidate) ==
  LET cv == candidate_valid(left_subtree(candidate), remaining_subtree(candidate))
  IN IF cv.tag # "ok" THEN Raise(cv.tag)
     ELSE IF cv.valid THEN Ok(candidate)
     ELSE generate_new_candidate(candidate, cv.order)

(* ---------------------- level_order_to_adjacency_matrix --------------- *)
(* while top_level >= level: stack.pop(); stack_top = stack[-1]            *)
(* the stack holds Python indices; <<>> stands for the IndexError of       *)
(* reading stack[-1] on an emptied stack                                   *)
(* the pop loop with a strict comparison: while top_level > level *)
RECURSIVE pop_loop_strict(_, _, _)
pop_loop_strict(tree, stack, level) ==
  IF Len(stack) = 0 THEN <<>>
  ELSE IF tree[stack[Len(stack)] + 1] > level
  THEN pop_loop_strict(tree, SubSeq(stack, 1, Len(stack) - 1), level)
  ELSE stack

RECURSIVE pop_loop(_, _, _)
pop_loop(tree, stack, level) ==
  IF Len(stack) = 0 THEN <<>>
  ELSE IF tree[stack[Len(stack)] + 1] >= level
  THEN pop_loop(tree, SubSeq(stack, 1, Len(stack) - 1), level)
  ELSE stack

RECURSIVE matrix_loop(_, _, _, _)
matrix_loop(tree, index, stack, m) ==
  IF index >= Len(tree) THEN Ok(m)
  ELSE IF Len(stack) > 0
  THEN LET st == pop_loop(tree, stack, tree[index + 1])
       IN IF Len(st) = 0 THEN Raise("IndexError")
          ELSE LET stack_top == st[Len(st)]
                   m2 == [m EXCEPT ![index + 1][stack_top + 1] = 1,
                                   ![stack_top + 1][index + 1] = 1]
               IN matrix_loop(tree, index + 1, Append(st, index), m2)
  ELSE matrix_loop(tree, index + 1, Append(stack, index), m)

level_order_to_adjacency_matrix(tree) ==
  matrix_loop(tree, 0, <<>>,
              [i \in 1..Len(tree) |-> [j \in 1..Len(tree) |-> 0]])

(* -------------------- non_isomorphic_rooted_tree_count ----------------- *)
(* An entry <<hi, lo>> is the number hi * 10^9 + lo (the last entries do   *)
(* not fit a 32-bit integer).                                              *)
oeis_counts ==
  << <<0, 1>>, <<0, 1>>, <<0, 1>>, <<0, 1>>, <<0, 2>>, <<0, 3>>, <<0, 6>>,
     <<0, 11>>, <<0, 23>>, <<0, 47>>, <<0, 106>>, <<0, 235>>, <<0, 551>>,
     <<0, 1301>>, <<0, 3159>>, <<0, 7741>>, <<0, 19320>>, <<0, 48629>>,
     <<0, 123867>>, <<0, 317955>>, <<0, 823065>>, <<0, 2144505>>,
     <<0, 5623756>>, <<0, 14828074>>, <<0, 39299897>>, <<0, 104636890>>,
     <<0, 279793450>>, <<0, 751065460>>, <<2, 23443032>>, <<5, 469566585>>,
     <<14, 830871802>>, <<40, 330829030>>, <<109, 972410221>>,
     <<300, 628862480>>, <<823, 779631721>>, <<2262, 366343746>>,
     <<6226, 306037178>> >>

non_isomorphic_rooted_tree_count(n_vertices) ==
  IF n_vertices < Len(oeis_counts)
  THEN IF n_vertices < -Len(oeis_counts) THEN Raise("IndexError")
       ELSE Ok(PyAt(oeis_counts, n_vertices))
  ELSE Raise("ValueError")

(* ------------------------------ state machine -------------------------- *)
(* mode     which generator function the consumer called                   *)
(* n        its argument n_vertices                                        *)
(* pc       "idle" before the call, "created" for a generator object that  *)
(*          has not run yet, "suspended" at the yield, "exhausted" after   *)
(*          the body returned, "raised" after the ValueError of line 127,  *)
(*          "error" after any other exception                              *)
(* heap     the list objects yielded so far, in order; the consumer holds  *)
(*          a reference to each                                            *)
(* layout   the generator's variable layout: 0 is None (or unbound), k is  *)
(*          a reference to heap[k]                                         *)
(* original the contents each yielded list had when it was yielded         *)
(* matrix   the matrix last yielded by generate_trees_adjacency_matrix     *)
(* countArg, countResult  the last call of non_isomorphic_rooted_tree_count*)
Init ==
  /\ mode = "level_order"
  /\ n = 0
  /\ pc = "idle"
  /\ heap = <<>>
  /\ layout = 0
  /\ original = <<>>
  /\ matrix = <<>>
  /\ countArg = 0
  /\ countResult = None

(* generate_trees_level_order(n) / generate_trees_adjacency_matrix(n):     *)
(* both are generator functions, the call runs none of the body            *)
Call ==
  /\ pc = "idle"
  /\ \E m \in {"level_order", "adjacency_matrix"}, nv \in (-MaxNegN)..MaxN :
        /\ mode' = m
        /\ n' = nv
  /\ pc' = "created"
  /\ UNCHANGED <<heap, layout, original, matrix, countArg, countResult>>

(* one pass of the while loop from "layout = next_tree(layout)" to the     *)
(* yield, for a layout that is not None                                    *)
LoopBody(candidate) ==
  \E r \in {next_tree(candidate)} :
     IF r.tag = "ok"
     THEN \E mx \in {IF mode = "adjacency_matrix"
                     THEN level_order_to_adjacency_matrix(r.val)
                     ELSE Ok(<<>>)} :
             IF mx.tag = "ok"
             THEN /\ heap' = Append(heap, r.val)
                  /\ original' = Append(original, r.val)
                  /\ layout' = Len(heap) + 1
                  /\ matrix' = mx.val
                  /\ pc' = "suspended"
             ELSE /\ pc' = "error"
                  /\ UNCHANGED <<heap, original, layout, matrix>>
     ELSE IF r.tag = "none"
     THEN /\ layout' = 0
          /\ pc' = "exhausted"
          /\ UNCHANGED <<heap, original, matrix>>
     ELSE /\ pc' = "error"
          /\ UNCHANGED <<heap, original, layout, matrix>>

(* the first next() on the generator: lines 126-137 *)
Start ==
  /\ pc = "created"
  /\ IF n <= 0
     THEN /\ pc' = "raised"
          /\ UNCHANGED <<heap, original, layout, matrix>>
     ELSE IF n = 1
     THEN /\ pc' = "exhausted"
          /\ UNCHANGED <<heap, original, layout, matrix>>
     ELSE \E seed \in {generate_centered_tree_layout(n)} : LoopBody(seed)
  /\ UNCHANGED <<mode, n, countArg, countResult>>

(* a later next(): line 138, the loop test, then lines 135-137 *)
Resume ==
  /\ pc = "suspended"
  /\ \E nxt \in {next_rooted_tree(heap[layout])} :
        IF nxt.tag = "ok" THEN \E candidate \in {nxt.val} : LoopBody(candidate)
        ELSE IF nxt.tag = "none"
        THEN /\ layout' = 0
             /\ pc' = "exhausted"
             /\ UNCHANGED <<heap, original, matrix>>
        ELSE /\ pc' = "error"
             /\ UNCHANGED <<heap, original, layout, matrix>>
  /\ UNCHANGED <<mode, n, countArg, countResult>>

(* the consumer of generate_trees_level_order writes into a list it was    *)
(* handed, while the generator is suspended                                *)
ConsumerModify ==
  /\ pc = "suspended"
  /\ mode = "level_order"
  /\ n <= MaxTamperN
  /\ heap = original
  /\ \E k \in 1..Len(heap), i \in 1..n, v \in 0..MaxWrite :
        /\ heap[k][i] # v
        /\ heap' = [heap EXCEPT ![k][i] = v]
  /\ UNCHANGED <<mode, n, pc, layout, original, matrix, countArg, countResult>>

(* a call of non_isomorphic_rooted_tree_count *)
CountCall ==
  /\ \E a \in (-MaxCountArg)..MaxCountArg :
        /\ countArg' = a
        /\ countResult' = non_isomorphic_rooted_tree_count(a)
  /\ UNCHANGED <<mode, n, pc, heap, layout, original, matrix>>

Next == Call \/ Start \/ Resume

Spec == Init /\ [][Next]_vars

(* The consumer keeps requesting: weak fairness of Start and of Resume.    *)
(* Every branch of Start and of Resume changes pc or heap, so              *)
(* ENABLED <<Start>>_vars is pc = "created" and ENABLED <<Resume>>_vars is *)
(* pc = "suspended"; WF_vars(Start) and WF_vars(Resume) are written out    *)
(* with these state predicates in place of ENABLED.                        *)
RequestFairness ==
  /\ ([]<>(pc # "created") \/ []<><<Start>>_vars)
  /\ ([]<>(pc # "suspended") \/ []<><<Resume>>_vars)

FairSpec == Spec /\ RequestFairness

NextConsumer == Call \/ Start \/ Resume \/ ConsumerModify

SpecConsumer == Init /\ [][NextConsumer]_vars

NextCount == CountCall

SpecCount == Init /\ [][NextCount]_vars

(* ------------------------- notions used by the claims ------------------ *)
(* the level-sequence invariants for a list of nv vertices *)
IsLevelSequence(s, nv) ==
  /\ Len(s) = nv
  /\ s[1] = 0
  /\ \A i \in 2..Len(s) : s[i] >= 1 /\ s[i] <= s[i - 1] + 1

(* Canonical form of the rooted tree a level sequence encodes: at every    *)
(* vertex the children's subtrees are put in descending lexicographic      *)
(* order of their own canonical forms.  Two level sequences encode         *)
(* isomorphic rooted trees exactly when their canonical forms are equal.   *)
RECURSIVE ConcatDescending(_, _)
ConcatDescending(S, C) ==
  IF S = {} THEN <<>>
  ELSE LET m == CHOOSE i \in S : \A j \in S : ~PyGreater(C[j], C[i])
       IN C[m] \o ConcatDescending(S \ {m}, C)

RECURSIVE Canon(_)
Canon(s) ==
  IF Len(s) <= 1 THEN s
  ELSE LET starts == {i \in 2..Len(s) : s[i] = s[1] + 1}
           stop(i) == IF \E j \in starts : j > i
                      THEN (CHOOSE j \in starts : j > i /\ \A h \in starts : h > i => h >= j) - 1
                      ELSE Len(s)
           C == [i \in starts |-> Canon(SubSeq(s, i, stop(i)))]
       IN <<s[1]>> \o ConcatDescending(starts, C)

(* the parent of vertex i >= 1 (Python index): the nearest earlier index   *)
(* whose depth is one less                                                 *)
Parent(s, i) ==
  CHOOSE j \in 0..(i - 1) :
    /\ s[j + 1] = s[i + 1] - 1
    /\ \A h \in (j + 1)..(i - 1) : s[h + 1] # s[i + 1] - 1

RECURSIVE SumSeq(_)
SumSeq(s) == IF Len(s) = 0 THEN 0 ELSE s[1] + SumSeq(Tail(s))

(* what the driver emits after a list with contents prev: line 138, then   *)
(* line 135                                                                *)
DriverSuccessor(prev) ==
  LET nxt == next_rooted_tree(prev)
  IN IF nxt.tag = "ok" THEN next_tree(nxt.val) ELSE nxt

(* the raw candidate the last emitted sequence was refined from *)
LastRawCandidate ==
  IF Len(original) = 1 THEN Ok(generate_centered_tree_layout(n))
  ELSE next_rooted_tree(original[Len(original) - 1])

(* the last emitted sequence came out of generate_new_candidate *)
LastWasRefined ==
  /\ pc = "suspended"
  /\ LastRawCandidate.tag = "ok"
  /\ original[Len(original)] # LastRawCandidate.val

(* ... and went through the suffix overwrite of lines 99-103 *)
LastWasOverwritten ==
  /\ LastWasRefined
  /\ LET c == LastRawCandidate.val
     IN PyAt(c, Len(left_subtree(c))) > 2

(* -------------------------------- claims ------------------------------- *)

(* C1: when a run of generate_trees_level_order(n) is exhausted, the       *)
(* number of emitted sequences equals non_isomorphic_rooted_tree_count(n)  *)
(* for n >= 2, and is zero for n = 1.                                      *)
C1_CountMatchesTable ==
  (pc = "exhausted") =>
     IF n = 1 THEN Len(original) = 0
     ELSE non_isomorphic_rooted_tree_count(n) = Ok(<<0, Len(original)>>)

C1_Witness == pc = "exhausted" /\ n = 8 /\ Len(original) = 23

(* C2: a full run of generate_trees_level_order(3) emits exactly the two   *)
(* sequences [0,1,2] and [0,1,1].                                          *)
C2_ThreeEmitsPathAndStar ==
  (pc = "exhausted" /\ n = 3) => original = << <<0, 1, 2>>, <<0, 1, 1>> >>

(* C3: no sequence emitted in a run is identical to, or encodes a rooted   *)
(* tree isomorphic to, a sequence emitted earlier in that run (every       *)
(* prefix of a run is a reachable state, so comparing the newest emitted   *)
(* sequence with all earlier ones covers every pair).                      *)
C3_NoDuplicates ==
  Len(original) >= 2 =>
    LET last == original[Len(original)]
        lastCanon == Canon(last)
    IN \A i \in 1..(Len(original) - 1) :
          /\ original[i] # last
          /\ Canon(original[i]) # lastCanon

C3_Witness == pc = "suspended" /\ n = 7 /\ Len(original) = 11

(* C4: with n <= 0 the ValueError is raised by the call itself: once the   *)
(* call has returned there is no generator waiting for a first request.    *)
C4_RaisesAtCall ==
  (pc # "idle" /\ n <= 0) => pc = "raised"

(* C5: every emitted sequence, and the raw candidate next_rooted_tree      *)
(* derives from the last emitted one, has length n, starts with 0 and      *)
(* afterwards holds depths >= 1 that rise by at most one per step.         *)
C5_LevelSequenceInvariants ==
  /\ \A k \in 1..Len(original) : IsLevelSequence(original[k], n)
  /\ (pc = "suspended" /\ next_rooted_tree(heap[layout]).tag = "ok") =>
        IsLevelSequence(next_rooted_tree(heap[layout]).val, n)

C5_Witness == LastWasOverwritten

(* C6: no generator step changes a list that was already emitted, and      *)
(* every emitted list is the one the driver derives from the contents its  *)
(* predecessor was emitted with, whatever the consumer wrote into that     *)
(* predecessor since.                                                      *)
C6_IndependentCopy ==
  [][ /\ (Start \/ Resume) =>
           \A k \in 1..Len(heap) : heap'[k] = heap[k]
      /\ (Resume /\ pc' = "suspended") =>
           Ok(original'[Len(original')]) = DriverSuccessor(original[Len(original)])
    ]_vars

(* C7: a consumer that keeps requesting reaches exhaustion for every       *)
(* n >= 1, no request ends in an error, and a request made at the yield    *)
(* ends the run exactly when next_rooted_tree returns None.                *)
C7_Terminates ==
  /\ [](pc = "created" /\ n >= 1 => <>(pc = "exhausted"))
  /\ [](n >= 1 => pc # "error")
  /\ [][pc = "suspended" =>
          (pc' = "exhausted" <=> next_rooted_tree(heap[layout]).tag = "none")]_vars

C7_Witness == pc = "exhausted" /\ n = 9 /\ Len(original) = 47

(* C8: non_isomorphic_rooted_tree_count(n) returns the table entry at      *)
(* index n for n in 0..36 and raises an error for every other integer: it  *)
(* never returns a value for an n outside 0..36.                           *)
C8_CountLookup ==
  (countResult # None) =>
     IF countArg \in 0..36
     THEN countResult = Ok(oeis_counts[countArg + 1])
     ELSE countResult.tag \in {"ValueError", "IndexError"}

(* C9: the matrix generate_trees_adjacency_matrix yields for an emitted    *)
(* sequence is n x n with 0/1 entries, symmetric, zero on the diagonal,    *)
(* sums to 2(n-1), and has a 1 exactly between a vertex and its parent.    *)
C9_AdjacencyMatrix ==
  (mode = "adjacency_matrix" /\ pc = "suspended") =>
     LET seq == heap[layout]
     IN /\ Len(matrix) = n
        /\ \A i \in 1..n : Len(matrix[i]) = n
        /\ \A i, j \in 1..n :
              /\ matrix[i][j] \in {0, 1}
              /\ matrix[i][j] = matrix[j][i]
              /\ (i = j => matrix[i][j] = 0)
              /\ (matrix[i][j] = 1) <=>
                   \/ (i > 1 /\ Parent(seq, i - 1) = j - 1)
                   \/ (j > 1 /\ Parent(seq, j - 1) = i - 1)
        /\ SumSeq([i \in 1..n |-> SumSeq(matrix[i])]) = 2 * (n - 1)

C9_Witness == mode = "adjacency_matrix" /\ pc = "suspended" /\ n = 7 /\ Len(heap) = 5

(* C10: every emitted sequence is a fixed point of next_tree: its split is *)
(* valid for candidate_valid and next_tree returns it unchanged.           *)
C10_EmittedIsFixedPoint ==
  \A k \in 1..Len(original) :
     /\ candidate_valid(left_subtree(original[k]),
                        remaining_subtree(original[k])).valid
     /\ next_tree(original[k]) = Ok(original[k])

C10_Witness == LastWasRefined /\ ~LastWasOverwritten

====
